---- MODULE Spec2Model ----
(***************************************************************************)
(* A model of the countdown timer of src/src/main.rs: the DateStr          *)
(* conversions, the App state, the per-frame update callback (split at    *)
(* the places where it reads its inputs and samples the clock), save and   *)
(* the restore done by App::from_cc.                                       *)
(*                                                                         *)
(* Strings are sequences of one-character strings.  Instants are counted   *)
(* in clock units, Res units to the second, so that Duration::as_secs      *)
(* truncates as it does in the program.                                    *)
(***************************************************************************)
EXTENDS Integers, Sequences, FiniteSets, TLC

VARIABLES
    pc,             \* where the process is: idle (between frames), toggle,
                    \* tick, mark (inside update), exited, panicked, or the
                    \* positions of the function-level specifications
    input,          \* App.input
    marked,         \* App.marked
    target,         \* App.target, an Instant in clock units
    paused,         \* App.paused
    remaining,      \* App.remaining
    timer_duration, \* App.timer_duration, in whole seconds
    clock,          \* the monotonic clock read by Instant::now()
    storage,        \* the key-value store handed to from_cc and save
    act,            \* what the last step did
    hist,           \* whether the input is untouched since a restore or a
                    \* pause: restored, restored_mid (restored with
                    \* remaining < duration), paused, or other
    ret             \* the value returned by the last function-level call

vars == <<pc, input, marked, target, paused, remaining, timer_duration,
          clock, storage, act, hist, ret>>

app == <<input, marked, target, paused, remaining, timer_duration>>

----------------------------------------------------------------------------
(* Bounds of the model *)

\* clock units per second (the program's clock has nanoseconds)
Res == 2

\* the clock stops advancing here
MaxClock == 3

\* the largest number of seconds handed to from_seconds on its own:
\* 99:59:59
MaxSeconds == 359999

----------------------------------------------------------------------------
(* Constants of the program *)

\* TextEdit::char_limit(2)
CharLimit == 2

None == <<"None">>

Keys == {"remaining", "duration", "marked"}

----------------------------------------------------------------------------
(* Strings and the standard library's conversions *)

Digits == <<"0", "1", "2", "3", "4", "5", "6", "7", "8", "9">>

DigitChars == {Digits[i] : i \in 1..10}

DigitVal(c) == (CHOOSE i \in 1..10 : Digits[i] = c) - 1

RECURSIVE DigitsValue(_)
\* the number a non-empty sequence of ASCII digits denotes
DigitsValue(s) ==
    IF Len(s) = 0 THEN 0
    ELSE DigitsValue(SubSeq(s, 1, Len(s) - 1)) * 10 + DigitVal(s[Len(s)])

\* str::parse::<u64>: an optional leading '+', then one or more ASCII digits
ParseU64(s) ==
    LET body == IF Len(s) > 1 /\ s[1] = "+" THEN Tail(s) ELSE s
    IN  IF Len(s) = 0 \/ \E i \in 1..Len(body) : body[i] \notin DigitChars
        THEN [ok |-> FALSE, val |-> 0]
        ELSE [ok |-> TRUE, val |-> DigitsValue(body)]

\* Result::unwrap_or(0)
UnwrapOr0(r) == IF r.ok THEN r.val ELSE 0

RECURSIVE to_string(_)
\* u64::to_string
to_string(n) ==
    IF n < 10 THEN <<Digits[n + 1]>>
    ELSE to_string(n \div 10) \o <<Digits[(n % 10) + 1]>>

\* format!("{:0>2}", s): left-padded with '0' to two characters
Pad2(s) ==
    IF Len(s) >= 2 THEN s
    ELSE IF Len(s) = 1 THEN <<"0">> \o s
    ELSE <<"0", "0">>

----------------------------------------------------------------------------
(* DateStr *)

DateStrDefault == [hour |-> <<"0", "0">>, minute |-> <<"0", "0">>,
                   second |-> <<"0", "0">>]

\* from_seconds with the minutes not reduced modulo the hour
from_seconds_all_minutes(sec) ==
    LET h == sec \div 3600
        m == sec \div 60
        s == sec % 60
    IN  [hour |-> Pad2(to_string(h)), minute |-> Pad2(to_string(m)),
         second |-> Pad2(to_string(s))]

from_seconds(sec) ==
    LET h == sec \div 3600
        m == (sec % 3600) \div 60
        s == sec % 60
    IN  [hour |-> Pad2(to_string(h)), minute |-> Pad2(to_string(m)),
         second |-> Pad2(to_string(s))]

\* parse_secs with `?` in place of unwrap_or(0)
parse_secs_strict(d) ==
    [ok |-> ParseU64(d.hour).ok /\ ParseU64(d.minute).ok
            /\ ParseU64(d.second).ok,
     val |-> UnwrapOr0(ParseU64(d.hour)) * 3600
             + UnwrapOr0(ParseU64(d.minute)) * 60
             + UnwrapOr0(ParseU64(d.second))]

parse_secs(d) ==
    [ok |-> TRUE,
     val |-> UnwrapOr0(ParseU64(d.hour)) * 3600
             + UnwrapOr0(ParseU64(d.minute)) * 60
             + UnwrapOr0(ParseU64(d.second))]

----------------------------------------------------------------------------
(* App: construction *)

NoKeys == [k \in Keys |-> None]

\* impl Default for App, built at instant nw
AppDefault(nw) ==
    [input |-> DateStrDefault, marked |-> DateStrDefault, target |-> nw,
     paused |-> TRUE, remaining |-> 0, timer_duration |-> 0]

\* the three parses of from_cc, each followed by unwrap()
StoredParses(st) ==
    [remaining |-> ParseU64(st["remaining"]),
     duration |-> ParseU64(st["duration"]),
     marked |-> ParseU64(st["marked"])]

\* Restored with the display taken from the duration, as target is
RestoredFromDuration(r, d, m, nw) ==
    [input |-> from_seconds(d), marked |-> from_seconds(m),
     target |-> nw + d * Res, paused |-> TRUE, remaining |-> r,
     timer_duration |-> d]

\* Restored with the target taken from the remaining time
RestoredTargetFromRemaining(r, d, m, nw) ==
    [input |-> from_seconds(r), marked |-> from_seconds(m),
     target |-> nw + r * Res, paused |-> TRUE, remaining |-> r,
     timer_duration |-> d]

\* Restored with remaining and the duration exchanged
RestoredSwapped(r, d, m, nw) ==
    [input |-> from_seconds(d), marked |-> from_seconds(m),
     target |-> nw + r * Res, paused |-> TRUE, remaining |-> d,
     timer_duration |-> r]

\* the App literal of from_cc, from the three unwrapped numbers
Restored(r, d, m, nw) ==
    [input |-> from_seconds(r), marked |-> from_seconds(m),
     target |-> nw + d * Res, paused |-> TRUE, remaining |-> r,
     timer_duration |-> d]

\* App::from_cc: panicked is TRUE where an unwrap() meets an Err
from_cc(st, nw) ==
    IF \E k \in Keys : st[k] = None
    THEN [panicked |-> FALSE, app |-> AppDefault(nw)]
    ELSE LET p == StoredParses(st)
         IN  IF p.remaining.ok /\ p.duration.ok /\ p.marked.ok
             THEN [panicked |-> FALSE,
                   app |-> Restored(p.remaining.val, p.duration.val,
                                    p.marked.val, nw)]
             ELSE [panicked |-> TRUE, app |-> AppDefault(nw)]

\* save with the values of "remaining" and "duration" exchanged
save_swapped(r, d, mk) ==
    [remaining |-> to_string(d), duration |-> to_string(r),
     marked |-> to_string(parse_secs(mk).val)]

\* save storing only the seconds field of marked
save_marked_second(r, d, mk) ==
    [remaining |-> to_string(r), duration |-> to_string(d),
     marked |-> to_string(UnwrapOr0(ParseU64(mk.second)))]

\* eframe::App::save: the three keys written
save(r, d, mk) ==
    [remaining |-> to_string(r), duration |-> to_string(d),
     marked |-> to_string(parse_secs(mk).val)]

----------------------------------------------------------------------------
(* App::update, piece by piece *)

\* the three format!("{:0>2}", ..) of the Start branch
Normalised(d) ==
    [hour |-> Pad2(d.hour), minute |-> Pad2(d.minute),
     second |-> Pad2(d.second)]

\* the target left at the instant of the start
StartTargetNow(nw, s) == nw

\* Instant::now().checked_add(Duration::from_secs(s)).unwrap()
StartTarget(nw, s) == nw + s * Res

\* two ifs in place of if/else: a start falls through to the pause
ToggledFallThrough(p) == TRUE

\* the toggle: what paused becomes when the button or Space fires
Toggled(p) == ~p

\* target left alone while paused
ReanchorNever(p, t, nw, r) == t

\* target re-anchored in every frame, running or not
ReanchorAlways(p, t, nw, r) == nw + r * Res

\* target re-anchored to the instant of the tick alone
ReanchorNow(p, t, nw, r) == IF p THEN nw ELSE t

\* if self.paused { self.target = now + remaining }
Reanchor(p, t, nw, r) == IF p THEN nw + r * Res ELSE t

\* if now < self.target { self.remaining = (self.target - now).as_secs() }
TickRemaining(t, nw, r) == IF nw < t THEN (t - nw) \div Res ELSE r

\* no display refresh at all
TickInputNever(p, t, nw, r, inp) == inp

\* the display refresh inside the same if, done only while running
TickInput(p, t, nw, r, inp) ==
    IF nw < t /\ ~p THEN from_seconds(r) ELSE inp

\* a Mark that stores the input in its canonical form
MarkedCanonical(clicked, inp, mk) ==
    IF clicked THEN from_seconds(parse_secs(inp).val) ELSE mk

\* the Mark button: self.marked = self.input.clone()
Marked(clicked, inp, mk) == IF clicked THEN inp ELSE mk

----------------------------------------------------------------------------
(* Inputs of the model *)

Fields == {"hour", "minute", "second"}

\* what each text field is edited to, at most CharLimit characters each
EditStrings(f) ==
    CASE f = "hour" -> {<<"1">>}
      [] f = "minute" -> {}
      [] f = "second" -> {<<>>, <<"a">>, <<"2">>, <<"+", "1">>}

----------------------------------------------------------------------------
(* The state machine *)

Init ==
    /\ pc = "idle"
    /\ input = DateStrDefault
    /\ marked = DateStrDefault
    /\ target = 0
    /\ paused = TRUE
    /\ remaining = 0
    /\ timer_duration = 0
    /\ clock = 0
    /\ storage = NoKeys
    /\ act = "new"
    /\ hist = "other"
    /\ ret = None

\* time passes between two frames, or while the process is not running
Advance ==
    /\ pc \in {"idle", "exited"}
    /\ clock < MaxClock
    /\ clock' = clock + 1
    /\ UNCHANGED <<pc, app, storage, act, hist, ret>>

\* update with a window of width or height 0: the early return
FrameHidden ==
    /\ pc = "idle"
    /\ UNCHANGED vars

\* update up to the three TextEdit widgets, enabled only while paused
FrameEdit ==
    /\ pc = "idle"
    /\ \/ /\ paused
          /\ \E f \in Fields : \E s \in EditStrings(f) :
                /\ Len(s) <= CharLimit
                /\ input' = [input EXCEPT ![f] = s]
          /\ hist' = "other"
       \/ UNCHANGED <<input, hist>>
    /\ act' = "frame"
    /\ pc' = "toggle"
    /\ UNCHANGED <<marked, target, paused, remaining, timer_duration, clock,
                   storage, ret>>

\* the toggle branch of update; pressed: the Start/Pause button or the
\* Space key fires in this frame
Toggle(pressed) ==
    /\ pc = "toggle"
    /\    IF pressed
          THEN IF paused
               THEN LET n == Normalised(input)
                        s == parse_secs(n).val
                    IN  /\ input' = n
                        /\ paused' = Toggled(paused)
                        /\ target' = StartTarget(clock, s)
                        /\ timer_duration' = s
                        /\ remaining' = s
                        /\ act' = "start"
                        /\ hist' = hist
               ELSE /\ paused' = Toggled(paused)
                    /\ act' = "pause"
                    /\ hist' = "paused"
                    /\ UNCHANGED <<input, target, timer_duration, remaining>>
          ELSE /\ act' = "none"
               /\ UNCHANGED <<input, paused, target, timer_duration, remaining,
                              hist>>
    /\ pc' = "tick"
    /\ UNCHANGED <<marked, clock, storage, ret>>

\* the Start/Pause button or the Space key
FrameToggle == \E pressed \in BOOLEAN : Toggle(pressed)

\* let now = Instant::now() and the recomputation of target and remaining;
\* e is the time gone by since the clock was last read
Tick(e) ==
    /\ pc = "tick"
    /\    LET now == clock + e
              t == Reanchor(paused, target, now, remaining)
              r == TickRemaining(t, now, remaining)
          IN  /\ now <= MaxClock
              /\ clock' = now
              /\ target' = t
              /\ remaining' = r
              /\ input' = TickInput(paused, t, now, r, input)
    /\ pc' = "mark"
    /\ act' = "tick"
    /\ UNCHANGED <<marked, paused, timer_duration, storage, hist, ret>>

\* the tick of a frame: the time between frames is Advance's, the time
\* since the Start branch of the same frame is at most one unit
FrameTick == \E e \in 0..1 : Tick(e)

\* the Mark button; clicked: it is clicked in this frame
Mark(clicked) ==
    /\ pc = "mark"
    /\ marked' = Marked(clicked, input, marked)
    /\ act' = IF clicked THEN "mark" ELSE "nomark"
    /\ hist' = IF paused THEN hist ELSE "other"
    /\ pc' = "idle"
    /\ UNCHANGED <<input, target, paused, remaining, timer_duration, clock,
                   storage, ret>>

\* the Mark button
FrameMark == \E clicked \in BOOLEAN : Mark(clicked)

\* save, called as the application shuts down
Save ==
    /\ pc = "idle"
    /\ storage' = save(remaining, timer_duration, marked)
    /\ pc' = "exited"
    /\ act' = "save"
    /\ UNCHANGED <<app, clock, hist, ret>>

\* the next launch: main builds the App with from_cc.  Nothing reads the
\* keys again before save rewrites all three, so they are forgotten here.
FromCc ==
    /\ pc = "exited"
    /\ LET c == from_cc(storage, clock)
       IN  /\ pc' = IF c.panicked THEN "panicked" ELSE "idle"
           /\ hist' = IF c.panicked \/ \E k \in Keys : storage[k] = None
                      THEN "other"
                      ELSE IF c.app.remaining < c.app.timer_duration
                           THEN "restored_mid"
                           ELSE "restored"
           /\ input' = c.app.input
           /\ marked' = c.app.marked
           /\ target' = c.app.target
           /\ paused' = c.app.paused
           /\ remaining' = c.app.remaining
           /\ timer_duration' = c.app.timer_duration
    /\ storage' = NoKeys
    /\ act' = IF paused THEN "restore" ELSE "restore_run"
    /\ UNCHANGED <<clock, ret>>

Next ==
    \/ Advance
    \/ FrameHidden
    \/ FrameEdit
    \/ FrameToggle
    \/ FrameTick
    \/ FrameMark
    \/ Save
    \/ FromCc

Spec == Init /\ [][Next]_vars

----------------------------------------------------------------------------
(* A countdown left alone: once the timer runs the user does nothing more,
   and update is called again within a second of the last call, as
   request_repaint_after(1 s) asks of the host.  The clock is read by the
   ticks alone, so two ticks in a row are at most Res units apart. *)

\* the toggle, never fired on a running timer
LiveToggle == \E pressed \in BOOLEAN : (pressed => paused) /\ Toggle(pressed)

\* the longest time since the clock was last read: a second since the
\* tick of the frame before, one unit since the Start branch of this frame
LiveGap == IF act = "start" THEN 1 ELSE Res

\* the tick, at most a second after the last one
LiveTick == \E e \in 0..LiveGap : Tick(e)

\* a tick before which time has passed
LiveTickLater == \E e \in 1..LiveGap : Tick(e)

\* the Mark button, never clicked on a running timer
LiveMark == \E clicked \in BOOLEAN : (clicked => paused) /\ Mark(clicked)

NextLive ==
    \/ FrameEdit
    \/ LiveToggle
    \/ LiveTick
    \/ LiveMark

\* the host keeps calling update, each call runs to its end, and time
\* keeps passing as long as the clock of the model can move
SpecLive ==
    /\ Init
    /\ [][NextLive]_vars
    /\ WF_vars(FrameEdit)
    /\ WF_vars(LiveToggle)
    /\ WF_vars(LiveTick)
    /\ WF_vars(LiveMark)
    /\ SF_vars(LiveTickLater)

----------------------------------------------------------------------------
(* from_cc on its own: the store holds anything a file can hold *)

StoredStrings ==
    {None, <<>>, <<"5">>, <<"1", "0">>, <<"6", "0">>, <<"a">>, <<"+", "7">>,
     <<"-", "1">>}

InitRestore ==
    /\ pc = "exited"
    /\ storage \in [Keys -> StoredStrings]
    /\ input = DateStrDefault
    /\ marked = DateStrDefault
    /\ target = 0
    /\ paused = TRUE
    /\ remaining = 0
    /\ timer_duration = 0
    /\ clock = 0
    /\ act = "new"
    /\ hist = "other"
    /\ ret = None

NextRestore ==
    \/ Advance
    \/ FromCc

SpecRestore == InitRestore /\ [][NextRestore]_vars

----------------------------------------------------------------------------
(* parse_secs on its own: every triple of fields a TextEdit can hold *)

Chars == {"0", "1", "9", "a", "+", "-", " "}

FieldStrings ==
    UNION {[1..n -> Chars] : n \in 0..CharLimit}

InitParse ==
    /\ pc = "call"
    /\ input \in [Fields -> FieldStrings]
    /\ marked = DateStrDefault
    /\ target = 0
    /\ paused = TRUE
    /\ remaining = 0
    /\ timer_duration = 0
    /\ clock = 0
    /\ storage = NoKeys
    /\ act = "new"
    /\ hist = "other"
    /\ ret = None

ParseCall ==
    /\ pc = "call"
    /\ ret' = parse_secs(input)
    /\ pc' = "returned"
    /\ act' = "parse_secs"
    /\ UNCHANGED <<app, clock, storage, hist>>

NextParse == ParseCall

SpecParse == InitParse /\ [][NextParse]_vars

----------------------------------------------------------------------------
(* from_seconds followed by parse_secs, on their own *)

InitRound ==
    /\ pc = "round"
    /\ remaining \in 0..MaxSeconds
    /\ input = DateStrDefault
    /\ marked = DateStrDefault
    /\ target = 0
    /\ paused = TRUE
    /\ timer_duration = 0
    /\ clock = 0
    /\ storage = NoKeys
    /\ act = "new"
    /\ hist = "other"
    /\ ret = None

FromSecondsCall ==
    /\ pc = "round"
    /\ input' = from_seconds(remaining)
    /\ pc' = "formatted"
    /\ act' = "from_seconds"
    /\ UNCHANGED <<marked, target, paused, remaining, timer_duration, clock,
                   storage, hist, ret>>

ParseBack ==
    /\ pc = "formatted"
    /\ ret' = parse_secs(input)
    /\ pc' = "parsed"
    /\ act' = "parse_secs"
    /\ UNCHANGED <<app, clock, storage, hist>>

NextRound ==
    \/ FromSecondsCall
    \/ ParseBack

SpecRound == InitRound /\ [][NextRound]_vars

----------------------------------------------------------------------------
(* The claims *)

\* the positions inside and between frames of a running process
FramePcs == {"idle", "toggle", "tick", "mark"}

\* a step of update or save, the process staying alive or exiting
FrameStep == pc \in FramePcs /\ pc' \in FramePcs \cup {"exited"}

\* the toggle fires in this step
ToggleFires == pc = "toggle" /\ act' \in {"start", "pause"}

\* the Mark button is clicked in this step
MarkFires == pc = "mark" /\ act' = "mark"

\* the launch that follows a save
RestoreStep == pc = "exited" /\ pc' = "idle"

\* C1: right after a tick of a running timer that sampled now >= target,
\* remaining is 0: it keeps no positive value after expiry.  (The display
\* the claim adds, 00:00:00, is the one of a remaining of 0.)
C1_ExpiryClamped ==
    (pc = "mark" /\ ~paused /\ clock >= target) => remaining = 0

\* C2: a restore from a store in which a key is missing or does not parse
\* as an unsigned integer does not crash and yields the default state.
C2_RestoreFallsBack ==
    [][(pc = "exited" /\ pc' # "exited"
        /\ \E k \in Keys : storage[k] = None \/ ~ParseU64(storage[k]).ok)
       => (pc' = "idle"
           /\ input' = DateStrDefault /\ marked' = DateStrDefault
           /\ remaining' = 0 /\ timer_duration' = 0 /\ paused')]_vars

\* C3: a save followed by a restore gives back the same remaining and the
\* same duration, and a paused timer, whatever the phase was at the save.
C3_SaveRestoreKeepsTimes ==
    [][RestoreStep
       => (remaining' = remaining /\ timer_duration' = timer_duration
           /\ paused')]_vars

\* a timer saved while running, with remaining 1 of a duration of 2, has
\* been restored
C3_Witness ==
    /\ pc = "idle" /\ act = "restore_run"
    /\ paused /\ remaining = 1 /\ timer_duration = 2

\* C4 as claimed: the restored marked triple equals, field by field, the
\* marked triple held at the save.
C4_MarkedFieldsRestored ==
    [][RestoreStep => marked' = marked]_vars

\* C4, amended: the restored marked triple is the canonical triple of the
\* seconds the saved one parses to, so it parses to the same seconds.
C4_MarkedSecondsRestored ==
    [][RestoreStep
       => (marked' = from_seconds(parse_secs(marked).val)
           /\ parse_secs(marked').val = parse_secs(marked).val)]_vars

\* a marked value of 01:00:02 has come back from the store
C4_Witness ==
    /\ pc = "idle" /\ act \in {"restore", "restore_run"}
    /\ marked = [hour |-> <<"0", "1">>, minute |-> <<"0", "0">>,
                 second |-> <<"0", "2">>]

\* what the first Start after the restore of a mid-countdown save starts
\* from: the input has not been edited since the restore
ResumeAfterRestore == pc = "toggle" /\ hist = "restored_mid" /\ act' = "start"

\* C5 as claimed: that Start leaves remaining = the saved duration.
C5_ResumesFromDuration ==
    [][ResumeAfterRestore => remaining' = timer_duration]_vars

\* C5, amended: that Start leaves remaining and the duration at the saved
\* remaining, with target that many seconds after the start.
C5_ResumesFromRemaining ==
    [][ResumeAfterRestore
       => (remaining' = remaining /\ timer_duration' = remaining
           /\ target' = clock + remaining * Res)]_vars

\* the Start after such a restore has just run, from a remaining of 1
C5_Witness ==
    /\ pc = "tick" /\ act = "start" /\ hist = "restored_mid"
    /\ remaining = 1 /\ ~paused

\* C6: the toggle firing while paused, with an input that parses to s,
\* leaves remaining = s, duration = s, target = now + s and paused = false.
C6_StartSetsCountdown ==
    [][(ToggleFires /\ paused)
       => LET s == parse_secs(input).val
          IN  /\ remaining' = s
              /\ timer_duration' = s
              /\ target' = clock + s * Res
              /\ ~paused']_vars

\* the start step has just run on the input "1", "00", "2"
C6_Witness ==
    /\ pc = "tick" /\ act = "start" /\ ~paused
    /\ input.hour = <<"0", "1">> /\ input.second = <<"0", "2">>
    /\ remaining = 3602 /\ target = clock + 3602 * Res

\* C7: no step of a frame that ends paused changes remaining: from the
\* pause on, through ticks, edits and marks, until the next start.
C7_PauseFreezesRemaining ==
    [][(pc \in FramePcs /\ pc' \in FramePcs /\ paused')
       => remaining' = remaining]_vars

\* a countdown of 2 paused at 1 has been ticked at the last instant of the
\* clock
C7_Witness ==
    /\ pc = "mark" /\ paused /\ hist = "paused"
    /\ remaining = 1 /\ timer_duration = 2 /\ clock = MaxClock

\* C8: within a running process paused changes only in the step of the
\* toggle, and the toggle firing turns Paused into Running (a start) or
\* Running into Paused (a pause), one of the two.
C8_PhaseChangesByToggle ==
    [][FrameStep
       => /\ (paused' # paused) => ToggleFires
          /\ ToggleFires
                => /\ paused' = ~paused
                   /\ act' = IF paused THEN "start" ELSE "pause"]_vars

\* a pause has just fired on a running countdown
C8_Witness ==
    pc = "tick" /\ act = "pause" /\ paused /\ remaining > 0

\* C9: a click on Mark copies the input as it stands into marked and
\* changes nothing else, and no other step of a frame changes marked.
C9_MarkCopiesInput ==
    [][FrameStep
       => /\ MarkFires
                => /\ marked' = input
                   /\ UNCHANGED <<input, target, paused, remaining,
                                  timer_duration>>
          /\ ~MarkFires => marked' = marked]_vars

\* a field that is no number was marked, and the input has changed since
C9_Witness ==
    /\ marked.second = <<"a">>
    /\ input.second # <<"a">>
    /\ ~paused

\* the number a field of at most two characters stands for: one or two
\* digits, or a '+' and a digit; anything else counts as 0
FieldValue(f) ==
    CASE Len(f) = 1 /\ f[1] \in DigitChars -> DigitVal(f[1])
      [] Len(f) = 2 /\ f[1] \in DigitChars /\ f[2] \in DigitChars
            -> 10 * DigitVal(f[1]) + DigitVal(f[2])
      [] Len(f) = 2 /\ f[1] = "+" /\ f[2] \in DigitChars -> DigitVal(f[2])
      [] OTHER -> 0

\* C10: parse_secs returns Ok(hours * 3600 + minutes * 60 + seconds), every
\* field that is empty or no decimal number counting as 0.
C10_ParseSumsFields ==
    pc = "returned"
        => /\ ret.ok
           /\ ret.val = FieldValue(input.hour) * 3600
                        + FieldValue(input.minute) * 60
                        + FieldValue(input.second)

\* parse_secs has returned 3600 for the triple "1", "a", ""
C10_Witness ==
    /\ pc = "returned"
    /\ input = [hour |-> <<"1">>, minute |-> <<"a">>, second |-> <<>>]
    /\ ret = [ok |-> TRUE, val |-> 3600]

\* C11: for every n below 360000 (hours below 100), parse_secs of
\* from_seconds(n) is n.
C11_FormatParseRoundTrip ==
    pc = "parsed" => ret = [ok |-> TRUE, val |-> remaining]

\* 359999 has been formatted as 99:59:59 and parsed back
C11_Witness ==
    /\ pc = "parsed"
    /\ remaining = 359999
    /\ input = [hour |-> <<"9", "9">>, minute |-> <<"5", "9">>,
                second |-> <<"5", "9">>]
    /\ ret.val = 359999

\* C12: a restore from a store whose three keys parse, as r, d and m,
\* builds a paused state with input = from_seconds(r), marked =
\* from_seconds(m), duration d and target = (instant of the restore) + d.
C12_RestoreBuildsState ==
    [][(pc = "exited" /\ pc' # "exited"
        /\ \A k \in Keys : storage[k] # None /\ ParseU64(storage[k]).ok)
       => LET r == ParseU64(storage["remaining"]).val
              d == ParseU64(storage["duration"]).val
              m == ParseU64(storage["marked"]).val
          IN  /\ pc' = "idle"
              /\ paused'
              /\ input' = from_seconds(r)
              /\ marked' = from_seconds(m)
              /\ remaining' = r
              /\ timer_duration' = d
              /\ target' = clock + d * Res]_vars

\* the store remaining = "10", duration = "60", marked = "5" has been
\* restored
C12_Witness ==
    /\ pc = "idle" /\ act = "restore" /\ paused
    /\ input = [hour |-> <<"0", "0">>, minute |-> <<"0", "0">>,
                second |-> <<"1", "0">>]
    /\ marked = [hour |-> <<"0", "0">>, minute |-> <<"0", "0">>,
                 second |-> <<"0", "5">>]
    /\ remaining = 10 /\ timer_duration = 60
    /\ target = clock + 60 * Res

\* a field of exactly two decimal digits
TwoDigits(f) == Len(f) = 2 /\ \A i \in 1..2 : f[i] \in DigitChars

\* C13: at the end of every frame each field of marked, and each field of
\* input while the timer is running, is a string of two decimal digits.
C13_TwoDigitFields ==
    pc = "idle"
        => /\ \A f \in Fields : TwoDigits(marked[f])
           /\ ~paused => \A f \in Fields : TwoDigits(input[f])

\* C14: at the end of every frame in which the timer is running the input
\* triple is from_seconds(remaining).
C14_DisplayFromRemaining ==
    (pc = "idle" /\ ~paused) => input = from_seconds(remaining)

\* C16: remaining never exceeds the duration, in any state reached by
\* edits, starts, pauses, ticks, marks, saves and restores.
C16_RemainingWithinDuration ==
    remaining <= timer_duration

\* a running countdown of 1 has been ticked after its expiry
C16_Witness ==
    /\ pc = "mark" /\ ~paused /\ clock > target
    /\ timer_duration = 1 /\ remaining <= 1

\* C17: while the timer stays running no step changes target and no step
\* raises remaining.
C17_RunningCountsDown ==
    [][(pc \in FramePcs /\ pc' \in FramePcs /\ ~paused /\ ~paused')
       => (target' = target /\ remaining' <= remaining)]_vars

\* a running countdown of 1 has been ticked down to 0
C17_Witness ==
    /\ pc = "mark" /\ ~paused
    /\ timer_duration = 1 /\ remaining = 0 /\ clock < target

\* the Start that follows a pause, the input not edited in between
ResumeAfterPause == pc = "toggle" /\ hist = "paused" /\ act' = "start"

\* C18: that Start leaves remaining at the value frozen by the pause and
\* overwrites the duration with it.
C18_ResumeFromFrozen ==
    [][ResumeAfterPause
       => (remaining' = remaining /\ timer_duration' = remaining
           /\ ~paused')]_vars

\* a countdown paused at 1 has just been started again, late on the clock
C18_Witness ==
    /\ pc = "tick" /\ act = "start" /\ hist = "paused"
    /\ remaining = 1 /\ timer_duration = 1 /\ clock >= Res

\* C19: right after a tick executed while paused, target = now +
\* remaining, now being the instant that tick sampled.
C19_PausedTargetAnchored ==
    (pc = "mark" /\ paused) => target = clock + remaining * Res

\* the first tick after the restore of a mid-countdown save has run
C19_Witness ==
    /\ pc = "mark" /\ paused /\ hist = "restored_mid"
    /\ remaining = 1 /\ timer_duration = 2
    /\ target = clock + Res

\* C15: a timer started with s > 0 and left running, ticked at least once
\* a second, eventually has remaining = 0 and the display 00:00:00, and
\* keeps them.  (The countdowns are those whose expiry the clock of the
\* model reaches.)
C15_CountdownReachesZero ==
    (pc = "tick" /\ act = "start" /\ timer_duration > 0
     /\ target <= MaxClock)
        ~> [](remaining = 0 /\ input = DateStrDefault)

====
